---- MODULE Spec2Model ----
(***************************************************************************)
(* Quota-gated batch image generation (src/app/actions.ts).                *)
(*                                                                         *)
(* The server actions generateImages and getRemainingImages are async      *)
(* functions of one Node process.  Every `await` is a point where another  *)
(* invocation may run, so each invocation is a process whose position is   *)
(* pc[p], and one action is the code between two awaits.  The Redis server *)
(* executes one command at a time (GET, INCRBY and EXPIRE are each         *)
(* atomic); the date key is computed from the wall clock, abstracted to a  *)
(* day number.                                                             *)
(***************************************************************************)
EXTENDS Integers, Sequences, FiniteSets, TLC

\* ------------------------------------------------------------------ bounds
MaxLen == 3            \* longest valid batch the callers submit
MaxDay == 3            \* days the clock runs through
MaxCalls == 2          \* invocations of the server actions in one behaviour
NumTitles == 2         \* distinct titles in a batch
MaxTitleLen == 4       \* longest title handed to generateFilename

\* ------------------------------------------------------- program constants
MAX_IMAGES_PER_DAY == 10
MAX_PROMPTS_PER_REQUEST == 10
EXPIRE_SECONDS == 172800
SECONDS_PER_DAY == 86400

\* The invocations that may be in flight at the same time.
Callers == {1, 2}
\* The invocations of a burst: one more than Callers.
BurstCallers == Callers \cup {3}
Days == 1..MaxDay

\* The batches the callers submit: the empty batch, every batch of 1..MaxLen
\* titles (position j holds title ((j-1) % NumTitles) + 1, so that a batch
\* has distinct as well as repeated titles), and one oversized batch.
TitleAt(j) == ((j - 1) % NumTitles) + 1
BatchOfLen(n) == [j \in 1..n |-> TitleAt(j)]
Batches == {BatchOfLen(n) : n \in 0..MaxLen} \cup {BatchOfLen(MAX_PROMPTS_PER_REQUEST + 1)}

Max(a, b) == IF a >= b THEN a ELSE b

\* ------------------------------------------------- strings held by Redis
\* Redis holds the counter as a decimal string; GET replies with that string
\* or with null for a missing key.  A string is a sequence of digits here.
Null == << >>

RECURSIVE ToStr(_)
ToStr(n) == IF n < 10 THEN <<n>> ELSE Append(ToStr(n \div 10), n % 10)

RECURSIVE parseInt(_)
parseInt(s) ==
  IF Len(s) = 0 THEN 0
  ELSE 10 * parseInt(SubSeq(s, 1, Len(s) - 1)) + s[Len(s)]

\* JavaScript truthiness of a GET reply: null and "" are falsy, "0" is not.
Truthy(s) == s # Null /\ Len(s) > 0

VARIABLES
  day,            \* the UTC calendar day of the wall clock
  store,          \* Redis: per date key, the counter and its time-to-live
  redisClient,    \* the module-level client: "null", or its connection state
  clientsCreated, \* number of createClient calls so far
  connectCalls,   \* number of connect() calls so far
  pc,             \* position of each invocation
  prompts,        \* generateImages: the argument
  key,            \* the date key the invocation computed
  count,          \* checkRateLimit: its parameter
  currentCount,   \* checkRateLimit: the count it read
  i,              \* generateImages: loop index (1-based)
  results,        \* generateImages: the results array
  ret,            \* what the invocation returned or threw
  obs,            \* history of the invocation (what it did so far)
  callsLeft,      \* invocations the callers may still start
  title,          \* generateFilename: its parameter
  filename,       \* generateFilename: its result
  approved        \* per date key, the sum of the amounts added by checkRateLimit calls

vars == <<day, store, redisClient, clientsCreated, connectCalls, pc, prompts, key, count,
          currentCount, i, results, ret, obs, callsLeft, title, filename, approved>>

\* The variables of a generateFilename call on its own.
slugVars == <<title, filename>>

\* ------------------------------------------------------------ Redis store
NoKey == [exists |-> FALSE, n |-> 0, expires |-> FALSE, ttl |-> 0]

\* expire(key, 60 * 48): minutes taken for seconds, the key is gone within
\* the hour.
TTLOfMinutes == (EXPIRE_SECONDS \div 60) \div SECONDS_PER_DAY

\* 48 hours in days of the date key.
TTLDays == EXPIRE_SECONDS \div SECONDS_PER_DAY

CountIn(s, k) == IF s[k].exists THEN s[k].n ELSE 0

\* GET key
RedisGet(s, k) == IF s[k].exists THEN ToStr(s[k].n) ELSE Null

\* INCR in place of INCRBY: the counter moves by one whatever the batch size.
RedisIncrByOne(s, k, by) ==
  [s EXCEPT ![k] = IF s[k].exists THEN [@ EXCEPT !.n = @ + 1]
                   ELSE [exists |-> TRUE, n |-> 1, expires |-> FALSE, ttl |-> 0]]

\* INCRBY key by: creates the key at 0 when absent, keeps an existing TTL.
RedisIncrBy(s, k, by) ==
  [s EXCEPT ![k] = IF s[k].exists THEN [@ EXCEPT !.n = @ + by]
                   ELSE [exists |-> TRUE, n |-> by, expires |-> FALSE, ttl |-> 0]]

\* EXPIRE key seconds: no effect on a missing key.
RedisExpire(s, k, days) ==
  [s EXCEPT ![k] = IF s[k].exists THEN [@ EXCEPT !.expires = TRUE, !.ttl = days] ELSE @]

\* ------------------------------------------------- the code's expressions
\* A key without the date: one counter for all days.
DateKeyUndated(d) == 1

\* new Date().toISOString().split('T')[0], as a day number
DateKey(d) == d

\* current ? parseInt(current, 10) : 0
CurrentCountOf(current) == IF Truthy(current) THEN parseInt(current) ELSE 0

\* currentCount > MAX_IMAGES_PER_DAY: the size of the batch left out of the check.
OverLimitWithoutCount(cur, cnt) == cur > MAX_IMAGES_PER_DAY

\* > MAX_IMAGES_PER_DAY + 1: one unit more than the limit is let through.
OverLimitPlusOne(cur, cnt) == cur + cnt > MAX_IMAGES_PER_DAY + 1

\* >= in place of >: the last unit of the quota cannot be reserved.
OverLimitOffByOne(cur, cnt) == cur + cnt >= MAX_IMAGES_PER_DAY

\* currentCount + count > MAX_IMAGES_PER_DAY
OverLimit(cur, cnt) == cur + cnt > MAX_IMAGES_PER_DAY

\* `${MAX_IMAGES_PER_DAY - currentCount} images remaining today.`
RemainingInMessage(cur) == MAX_IMAGES_PER_DAY - cur

\* Without Math.max: negative once the counter is past the limit.
RemainingImagesUnclamped(cur) == MAX_IMAGES_PER_DAY - cur

\* Math.max(0, MAX_IMAGES_PER_DAY - currentCount)
RemainingImages(cur) == Max(0, MAX_IMAGES_PER_DAY - cur)

\* Failing closed: an outage reported as an exhausted quota.
FailClosedValue == MAX_IMAGES_PER_DAY - MAX_IMAGES_PER_DAY

\* the catch branch of getRemainingImages
FailOpenValue == MAX_IMAGES_PER_DAY

\* Without the upper bound on the batch size.
ValidationErrorNoMax(b) == IF Len(b) = 0 THEN "Invalid prompts array" ELSE ""

\* the two validations of generateImages; "" when the batch is valid
ValidationError(b) ==
  IF Len(b) = 0 THEN "Invalid prompts array"
  ELSE IF Len(b) > MAX_PROMPTS_PER_REQUEST THEN "Maximum 10 images per request"
  ELSE ""

\* checkRateLimit(1): the quota checked per item.
ReserveAmountPerItem(b) == 1

\* the argument of checkRateLimit
ReserveAmount(b) == Len(b)

\* unshift in place of push: the newest result first.
UnshiftResult(res, b, j) == <<[url |-> j, title |-> b[j]]>> \o res

\* results.push({url: blobUrl, title: blogPostTitle}); the blob URL is unique
\* per upload (addRandomSuffix) and is named by the unit that uploaded it.
PushResult(res, b, j) == Append(res, [url |-> j, title |-> b[j]])

\* ------------------------------------------------------------------ state
NoRet == [kind |-> "none", err |-> "", num |-> 0, images |-> << >>]
Threw(e, n) == [kind |-> "error", err |-> e, num |-> n, images |-> << >>]
ReturnedNumber(n) == [kind |-> "number", err |-> "", num |-> n, images |-> << >>]
ReturnedImages(r) == [kind |-> "images", err |-> "", num |-> 0, images |-> r]

\* History of one invocation: how often it called checkRateLimit and with what
\* argument, whether that call has returned, whether a store command (connect
\* included) of it was answered, how many INCRBYs it had executed and by how
\* much they moved the counter, whether a unit's external call was issued,
\* which units succeeded, and whether a store error was caught.
NoObs == [reserveCalls |-> 0, reserveArg |-> 0, reserved |-> FALSE, contacted |-> FALSE,
          incrCalls |-> 0, charged |-> 0, workStarted |-> FALSE, ok |-> << >>,
          caught |-> FALSE]

\* The counter outlives the Node process: a process starts (redisClient is
\* null) on a day whose key is absent or holds what earlier invocations added,
\* with the time-to-live their EXPIRE set.
\* The counts at the boundary: room for exactly one longest batch, room for one
\* unit, and none.
InitialCounts == {MAX_IMAGES_PER_DAY - MaxLen, MAX_IMAGES_PER_DAY - 1, MAX_IMAGES_PER_DAY}
InitialKeys ==
  {NoKey} \cup {[exists |-> TRUE, n |-> c, expires |-> TRUE, ttl |-> TTLDays] :
                 c \in InitialCounts}

InitProgram(budget) ==
  /\ day = 1
  /\ \E k1 \in InitialKeys : store = [k \in Days |-> IF k = 1 THEN k1 ELSE NoKey]
  /\ redisClient = "null"
  /\ clientsCreated = 0
  /\ connectCalls = 0
  /\ pc = [p \in BurstCallers |-> "idle"]
  /\ prompts = [p \in BurstCallers |-> << >>]
  /\ key = [p \in BurstCallers |-> 0]
  /\ count = [p \in BurstCallers |-> 0]
  /\ currentCount = [p \in BurstCallers |-> 0]
  /\ i = [p \in BurstCallers |-> 0]
  /\ results = [p \in BurstCallers |-> << >>]
  /\ ret = [p \in BurstCallers |-> NoRet]
  /\ obs = [p \in BurstCallers |-> NoObs]
  /\ callsLeft = budget
  /\ approved = [k \in Days |-> CountIn(store, k)]

\* No generateFilename call is under observation.
InitWith(budget) ==
  /\ InitProgram(budget)
  /\ title = << >>
  /\ filename = << >>

Init == InitWith(MaxCalls)

\* ---------------------------------------------------------- getRedisClient
clientVars == <<redisClient, clientsCreated, connectCalls>>

\* if (!redisClient?.isReady): a caller that finds the client not connected
\* (still connecting, or failed) creates and connects another one.
EnterGetRedisClientUnlessReady(p, connectPc, getPc) ==
  IF redisClient # "ready"
  THEN /\ redisClient' = "connecting"
       /\ clientsCreated' = clientsCreated + 1
       /\ connectCalls' = connectCalls + 1
       /\ pc' = [pc EXCEPT ![p] = connectPc]
       /\ key' = key
  ELSE /\ UNCHANGED clientVars
       /\ pc' = [pc EXCEPT ![p] = getPc]
       /\ key' = [key EXCEPT ![p] = DateKey(day)]

\* The synchronous part of getRedisClient: create the client and start its
\* connect when the module variable is null, else hand out the variable as it
\* is; in that case the caller goes on to compute its date key and send GET.
EnterGetRedisClient(p, connectPc, getPc) ==
  IF redisClient = "null"
  THEN /\ redisClient' = "connecting"
       /\ clientsCreated' = clientsCreated + 1
       /\ connectCalls' = connectCalls + 1
       /\ pc' = [pc EXCEPT ![p] = connectPc]
       /\ key' = key
  ELSE /\ UNCHANGED clientVars
       /\ pc' = [pc EXCEPT ![p] = getPc]
       /\ key' = [key EXCEPT ![p] = DateKey(day)]

\* A command sent on a client that is still connecting waits in the client's
\* queue; on a client whose connect failed it is rejected; on a connected
\* client it is executed or fails (network).
CommandAnswered == redisClient # "connecting"
CommandOutcomes == IF redisClient = "ready" THEN {TRUE, FALSE} ELSE {FALSE}

\* ---------------------------------------------------------- generateImages
localVars == <<prompts, key, count, currentCount, i, results>>

\* generateImages(prompts) up to its first await: validation, then
\* checkRateLimit(prompts.length) up to the await in getRedisClient or the
\* await of GET.
generateImages(p, b) ==
  /\ pc[p] = "idle"
  /\ callsLeft > 0
  /\ prompts' = [prompts EXCEPT ![p] = b]
  /\ IF ValidationError(b) # ""
     THEN /\ pc' = [pc EXCEPT ![p] = "gi_done"]
          /\ ret' = [ret EXCEPT ![p] = Threw(ValidationError(b), 0)]
          /\ UNCHANGED <<clientVars, key, count, obs>>
     ELSE /\ count' = [count EXCEPT ![p] = ReserveAmount(b)]
          /\ obs' = [obs EXCEPT ![p].reserveCalls = @ + 1,
                                ![p].reserveArg = ReserveAmount(b)]
          /\ EnterGetRedisClient(p, "gi_connect", "gi_get")
          /\ ret' = ret
  /\ callsLeft' = callsLeft - 1
  /\ UNCHANGED <<day, store, currentCount, i, results, approved>>
  /\ UNCHANGED slugVars

\* await redisClient.connect() of the caller that created the client
ConnectOk(p) ==
  /\ pc[p] \in {"gi_connect", "gr_connect"}
  /\ redisClient' = "ready"
  /\ pc' = [pc EXCEPT ![p] = IF pc[p] = "gi_connect" THEN "gi_get" ELSE "gr_get"]
  /\ key' = [key EXCEPT ![p] = DateKey(day)]
  /\ obs' = [obs EXCEPT ![p].contacted = TRUE]
  /\ UNCHANGED <<day, store, clientsCreated, connectCalls, prompts, count, currentCount,
                 i, results, ret, callsLeft, approved>>
  /\ UNCHANGED slugVars

\* connect() rejects: checkRateLimit and generateImages reject with it, the
\* catch of getRemainingImages turns it into the fail-open value.  The module
\* variable keeps the client.
ConnectFail(p) ==
  /\ pc[p] \in {"gi_connect", "gr_connect"}
  /\ redisClient' = "failed"
  /\ pc' = [pc EXCEPT ![p] = IF pc[p] = "gi_connect" THEN "gi_done" ELSE "gr_done"]
  /\ ret' = [ret EXCEPT ![p] = IF pc[p] = "gi_connect" THEN Threw("Redis error", 0)
                               ELSE ReturnedNumber(FailOpenValue)]
  /\ obs' = [obs EXCEPT ![p].contacted = TRUE, ![p].caught = (pc[p] = "gr_connect")]
  /\ UNCHANGED <<day, store, clientsCreated, connectCalls, localVars, callsLeft, approved>>
  /\ UNCHANGED slugVars

\* checkRateLimit with a catch around it: on a store error the batch goes on
\* to its units without a reservation.
StoreCommandFailsOpen(p) ==
  /\ pc[p] \in {"gi_get", "gi_incrBy", "gi_expire"}
  /\ CommandAnswered
  /\ FALSE \in CommandOutcomes
  /\ pc' = [pc EXCEPT ![p] = "gi_concept"]
  /\ i' = [i EXCEPT ![p] = 1]
  /\ obs' = [obs EXCEPT ![p].contacted = TRUE, ![p].workStarted = TRUE]
  /\ UNCHANGED <<day, store, clientVars, prompts, key, count, currentCount, results,
                 ret, callsLeft, approved>>
  /\ UNCHANGED slugVars

\* A store command of checkRateLimit fails: the error leaves generateImages.
StoreCommandFails(p) ==
  /\ pc[p] \in {"gi_get", "gi_incrBy", "gi_expire"}
  /\ CommandAnswered
  /\ FALSE \in CommandOutcomes
  /\ pc' = [pc EXCEPT ![p] = "gi_done"]
  /\ ret' = [ret EXCEPT ![p] = Threw("Redis error", 0)]
  /\ obs' = [obs EXCEPT ![p].contacted = TRUE]
  /\ UNCHANGED <<day, store, clientVars, localVars, callsLeft, approved>>
  /\ UNCHANGED slugVars

\* const current = await redis.get(key), and the check that follows it
checkRateLimitGet(p) ==
  /\ pc[p] = "gi_get"
  /\ CommandAnswered
  /\ TRUE \in CommandOutcomes
  /\ LET cur == CurrentCountOf(RedisGet(store, key[p])) IN
       /\ currentCount' = [currentCount EXCEPT ![p] = cur]
       /\ obs' = [obs EXCEPT ![p].contacted = TRUE]
       /\ IF OverLimit(cur, count[p])
          THEN /\ pc' = [pc EXCEPT ![p] = "gi_done"]
               /\ ret' = [ret EXCEPT ![p] =
                            Threw("Daily limit exceeded", RemainingInMessage(cur))]
          ELSE /\ pc' = [pc EXCEPT ![p] = "gi_incrBy"]
               /\ ret' = ret
  /\ UNCHANGED <<day, store, clientVars, prompts, key, count, i, results, callsLeft, approved>>
  /\ UNCHANGED slugVars

\* redis.set(key, currentCount + count) in place of INCRBY: the value read
\* earlier is written back, whatever was added to the key since.
checkRateLimitSet(p) ==
  /\ pc[p] = "gi_incrBy"
  /\ CommandAnswered
  /\ TRUE \in CommandOutcomes
  /\ store' = [store EXCEPT ![key[p]] =
                 [exists |-> TRUE, n |-> currentCount[p] + count[p],
                  expires |-> FALSE, ttl |-> 0]]
  /\ pc' = [pc EXCEPT ![p] = "gi_expire"]
  /\ approved' = [approved EXCEPT ![key[p]] = @ + count[p]]
  /\ callsLeft' = callsLeft
  /\ obs' = [obs EXCEPT ![p].contacted = TRUE,
                        ![p].incrCalls = @ + 1,
                        ![p].charged = @ + count[p]]
  /\ UNCHANGED <<day, clientVars, localVars, ret>>
  /\ UNCHANGED slugVars

\* await redis.incrBy(key, count)
checkRateLimitIncrBy(p) ==
  /\ pc[p] = "gi_incrBy"
  /\ CommandAnswered
  /\ TRUE \in CommandOutcomes
  /\ store' = RedisIncrBy(store, key[p], count[p])
  /\ pc' = [pc EXCEPT ![p] = "gi_expire"]
  /\ approved' = [approved EXCEPT ![key[p]] = @ + count[p]]
  /\ callsLeft' = callsLeft
  /\ obs' = [obs EXCEPT ![p].contacted = TRUE,
                        ![p].incrCalls = @ + 1,
                        ![p].charged = @ + CountIn(store', key[p]) - CountIn(store, key[p])]
  /\ UNCHANGED <<day, clientVars, localVars, ret>>
  /\ UNCHANGED slugVars

\* await redis.expire(key, 60 * 60 * 48): checkRateLimit returns, and the loop
\* of generateImages issues the first unit's generateVisualConcept.
checkRateLimitExpire(p) ==
  /\ pc[p] = "gi_expire"
  /\ CommandAnswered
  /\ TRUE \in CommandOutcomes
  /\ store' = RedisExpire(store, key[p], TTLDays)
  /\ key' = [key EXCEPT ![p] = 0]
  /\ count' = [count EXCEPT ![p] = 0]
  /\ currentCount' = [currentCount EXCEPT ![p] = 0]
  /\ results' = [results EXCEPT ![p] = << >>]
  /\ i' = [i EXCEPT ![p] = 1]
  /\ pc' = [pc EXCEPT ![p] = "gi_concept"]
  /\ obs' = [obs EXCEPT ![p].contacted = TRUE, ![p].reserved = TRUE,
                        ![p].workStarted = TRUE]
  /\ UNCHANGED <<day, clientVars, prompts, ret, callsLeft, approved>>
  /\ UNCHANGED slugVars

\* A catch block that rethrows.
CatchRethrowsAlways == TRUE

\* The catch block of the loop: `continue` (FALSE), not a rethrow.
CatchRethrows == FALSE

\* A loop that advances by two: every second prompt is passed over.
NextIterationSkipping(p, res) ==
  /\ results' = [results EXCEPT ![p] = res]
  /\ IF i[p] + 1 < Len(prompts[p])
     THEN /\ i' = [i EXCEPT ![p] = @ + 2]
          /\ pc' = [pc EXCEPT ![p] = "gi_concept"]
          /\ ret' = ret
     ELSE /\ i' = i
          /\ pc' = [pc EXCEPT ![p] = "gi_done"]
          /\ ret' = [ret EXCEPT ![p] = ReturnedImages(res)]

\* End of iteration i with the results array `res`: the next unit's first
\* call, or `return results` after the last one.
NextIteration(p, res) ==
  /\ results' = [results EXCEPT ![p] = res]
  /\ IF i[p] < Len(prompts[p])
     THEN /\ i' = [i EXCEPT ![p] = @ + 1]
          /\ pc' = [pc EXCEPT ![p] = "gi_concept"]
          /\ ret' = ret
     ELSE /\ i' = i
          /\ pc' = [pc EXCEPT ![p] = "gi_done"]
          /\ ret' = [ret EXCEPT ![p] = ReturnedImages(res)]

\* A catch block that hands the failed unit's quota back (DECR of today's key).
UnitFailsRefund(p) ==
  /\ pc[p] \in {"gi_concept", "gi_image", "gi_upload"}
  /\ NextIteration(p, results[p])
  /\ store' = RedisIncrBy(store, DateKey(day), 0 - 1)
  /\ UNCHANGED <<day, clientVars, prompts, key, count, currentCount, obs, callsLeft, approved>>
  /\ UNCHANGED slugVars

\* A catch block that tries the failed unit again from its first step.
UnitFailsRetries(p) ==
  /\ pc[p] \in {"gi_concept", "gi_image", "gi_upload"}
  /\ pc' = [pc EXCEPT ![p] = "gi_concept"]
  /\ UNCHANGED <<day, store, clientVars, localVars, ret, obs, callsLeft, approved>>
  /\ UNCHANGED slugVars

\* A step of the unit throws: the catch block logs and continues.
UnitFails(p) ==
  /\ pc[p] \in {"gi_concept", "gi_image", "gi_upload"}
  /\ IF CatchRethrows
     THEN /\ pc' = [pc EXCEPT ![p] = "gi_done"]
          /\ ret' = [ret EXCEPT ![p] = Threw("Unit error", 0)]
          /\ UNCHANGED <<i, results>>
     ELSE NextIteration(p, results[p])
  /\ UNCHANGED <<day, store, clientVars, prompts, key, count, currentCount, obs, callsLeft, approved>>
  /\ UNCHANGED slugVars

\* await generateVisualConcept(blogPostTitle) returns the concept
generateVisualConcept(p) ==
  /\ pc[p] = "gi_concept"
  /\ pc' = [pc EXCEPT ![p] = "gi_image"]
  /\ UNCHANGED <<day, store, clientVars, localVars, ret, obs, callsLeft, approved>>
  /\ UNCHANGED slugVars

\* await generateImage(visualConcept) returns response.media.url
generateImage(p) ==
  /\ pc[p] = "gi_image"
  /\ pc' = [pc EXCEPT ![p] = "gi_upload"]
  /\ UNCHANGED <<day, store, clientVars, localVars, ret, obs, callsLeft, approved>>
  /\ UNCHANGED slugVars

\* await uploadImageToBlob(imageUrl, filename) returns the blob URL, which is
\* pushed with the title
uploadImageToBlob(p) ==
  /\ pc[p] = "gi_upload"
  /\ obs' = [obs EXCEPT ![p].ok = Append(@, i[p])]
  /\ NextIteration(p, PushResult(results[p], prompts[p], i[p]))
  /\ UNCHANGED <<day, store, clientVars, prompts, key, count, currentCount, callsLeft, approved>>
  /\ UNCHANGED slugVars

\* ------------------------------------------------------ getRemainingImages
getRemainingImages(p) ==
  /\ pc[p] = "idle"
  /\ callsLeft > 0
  /\ callsLeft' = callsLeft - 1
  /\ EnterGetRedisClient(p, "gr_connect", "gr_get")
  /\ UNCHANGED <<day, store, prompts, count, currentCount, i, results, ret, obs, approved>>
  /\ UNCHANGED slugVars

\* await redis.get(key) and the return
getRemainingImagesGet(p) ==
  /\ pc[p] = "gr_get"
  /\ CommandAnswered
  /\ TRUE \in CommandOutcomes
  /\ LET cur == CurrentCountOf(RedisGet(store, key[p])) IN
       /\ currentCount' = [currentCount EXCEPT ![p] = cur]
       /\ ret' = [ret EXCEPT ![p] = ReturnedNumber(RemainingImages(cur))]
  /\ obs' = [obs EXCEPT ![p].contacted = TRUE]
  /\ pc' = [pc EXCEPT ![p] = "gr_done"]
  /\ UNCHANGED <<day, store, clientVars, prompts, key, count, i, results, callsLeft, approved>>
  /\ UNCHANGED slugVars

\* redis.get throws: the catch block returns the fail-open value
getRemainingImagesCatch(p) ==
  /\ pc[p] = "gr_get"
  /\ CommandAnswered
  /\ FALSE \in CommandOutcomes
  /\ ret' = [ret EXCEPT ![p] = ReturnedNumber(FailOpenValue)]
  /\ obs' = [obs EXCEPT ![p].contacted = TRUE, ![p].caught = TRUE]
  /\ pc' = [pc EXCEPT ![p] = "gr_done"]
  /\ UNCHANGED <<day, store, clientVars, localVars, callsLeft, approved>>
  /\ UNCHANGED slugVars

\* The caller takes the result; the invocation's frame is gone.
Return(p) ==
  /\ pc[p] \in {"gi_done", "gr_done"}
  /\ pc' = [pc EXCEPT ![p] = "idle"]
  /\ prompts' = [prompts EXCEPT ![p] = << >>]
  /\ key' = [key EXCEPT ![p] = 0]
  /\ count' = [count EXCEPT ![p] = 0]
  /\ currentCount' = [currentCount EXCEPT ![p] = 0]
  /\ i' = [i EXCEPT ![p] = 0]
  /\ results' = [results EXCEPT ![p] = << >>]
  /\ ret' = [ret EXCEPT ![p] = NoRet]
  /\ obs' = [obs EXCEPT ![p] = NoObs]
  /\ UNCHANGED <<day, store, clientVars, callsLeft, approved>>
  /\ UNCHANGED slugVars

\* ------------------------------------------------------------ environment
\* Midnight UTC: the date key changes; every time-to-live loses a day, and a
\* key whose time-to-live ran out is gone.
Midnight ==
  /\ day < MaxDay
  /\ day' = day + 1
  /\ store' = [k \in Days |->
                 IF store[k].exists /\ store[k].expires
                 THEN IF store[k].ttl = 0 THEN NoKey ELSE [store[k] EXCEPT !.ttl = @ - 1]
                 ELSE store[k]]
  /\ UNCHANGED <<clientVars, pc, localVars, ret, obs, callsLeft, approved>>
  /\ UNCHANGED slugVars

\* Redis drops a key whose time-to-live ran out.
KeyExpires(k) ==
  /\ store[k].exists /\ store[k].expires /\ store[k].ttl = 0
  /\ store' = [store EXCEPT ![k] = NoKey]
  /\ UNCHANGED <<day, clientVars, pc, localVars, ret, obs, callsLeft, approved>>
  /\ UNCHANGED slugVars

\* One step of invocation p.
Step(p) ==
  \/ \E b \in Batches : generateImages(p, b)
  \/ ConnectOk(p)
  \/ ConnectFail(p)
  \/ StoreCommandFails(p)
  \/ checkRateLimitGet(p)
  \/ checkRateLimitIncrBy(p)
  \/ checkRateLimitExpire(p)
  \/ generateVisualConcept(p)
  \/ generateImage(p)
  \/ uploadImageToBlob(p)
  \/ UnitFails(p)
  \/ getRemainingImages(p)
  \/ getRemainingImagesGet(p)
  \/ getRemainingImagesCatch(p)
  \/ Return(p)

Next ==
  \/ \E p \in Callers : Step(p)
  \/ Midnight
  \/ \E k \in Days : KeyExpires(k)

\* The whole system: concurrent invocations over several days.
Spec == Init /\ [][Next]_vars

\* Concurrent invocations within one day, with one more invocation than in the
\* other specifications: two that race and one that looks at what they left.
InitRace == InitWith(MaxCalls + 1)
NextRace == \E p \in Callers : Step(p)
SpecRace == InitRace /\ [][NextRace]_vars

\* One invocation at a time, over several days.
NextSeq ==
  \/ Step(1)
  \/ Midnight
  \/ \E k \in Days : KeyExpires(k)
SpecSeq == Init /\ [][NextSeq]_vars

\* generateImages up to the return of checkRateLimit: the part of it that
\* reads and writes the store.
ReserveStep(p) ==
  \/ \E b \in Batches : generateImages(p, b)
  \/ ConnectOk(p)
  \/ ConnectFail(p)
  \/ StoreCommandFails(p)
  \/ checkRateLimitGet(p)
  \/ checkRateLimitIncrBy(p)
  \/ checkRateLimitExpire(p)

\* A burst: three invocations of generateImages at once within one day, each
\* followed until it throws or issues the first call of its first unit.
InitBurst == InitWith(Cardinality(BurstCallers))
NextBurst == \E p \in BurstCallers : ReserveStep(p)
SpecBurst == InitBurst /\ [][NextBurst]_vars

TypeOK ==
  /\ day \in Days
  /\ redisClient \in {"null", "connecting", "ready", "failed"}
  /\ \A p \in Callers : i[p] \in 0..(MAX_PROMPTS_PER_REQUEST + 1)

\* --------------------------------------------------------- generateFilename
\* A string is the sequence of its characters.
UpperCase == <<"A", "B", "C", "D", "E", "F", "G", "H", "I", "J", "K", "L", "M",
               "N", "O", "P", "Q", "R", "S", "T", "U", "V", "W", "X", "Y", "Z">>
LowerCase == <<"a", "b", "c", "d", "e", "f", "g", "h", "i", "j", "k", "l", "m",
               "n", "o", "p", "q", "r", "s", "t", "u", "v", "w", "x", "y", "z">>
Digits == <<"0", "1", "2", "3", "4", "5", "6", "7", "8", "9">>
CharsOf(s) == {s[j] : j \in 1..Len(s)}

\* \s of the regular expressions and the characters trim() removes
WhiteSpace == {" ", "\t", "\n", "\r"}
\* [\s_]
Separators == WhiteSpace \cup {"_"}
\* [a-z0-9\-\.]
SafeChars == CharsOf(LowerCase) \cup CharsOf(Digits) \cup {"-", "."}

LowerOf(c) ==
  IF c \in CharsOf(UpperCase)
  THEN LowerCase[CHOOSE j \in 1..Len(UpperCase) : UpperCase[j] = c]
  ELSE c

\* .toLowerCase()
toLowerCase(s) == [j \in 1..Len(s) |-> LowerOf(s[j])]

RECURSIVE StripLeading(_, _)
StripLeading(s, set) ==
  IF s # << >> /\ Head(s) \in set THEN StripLeading(Tail(s), set) ELSE s

RECURSIVE StripTrailing(_, _)
StripTrailing(s, set) ==
  IF s # << >> /\ s[Len(s)] \in set
  THEN StripTrailing(SubSeq(s, 1, Len(s) - 1), set)
  ELSE s

\* .trim()
trim(s) == StripTrailing(StripLeading(s, WhiteSpace), WhiteSpace)

\* .replace(/[set]+/g, c): every maximal run of characters of the set becomes c
RECURSIVE ReplaceRuns(_, _, _)
ReplaceRuns(s, set, c) ==
  IF s = << >> THEN << >>
  ELSE IF Head(s) \in set
       THEN <<c>> \o ReplaceRuns(StripLeading(s, set), set, c)
       ELSE <<Head(s)>> \o ReplaceRuns(Tail(s), set, c)

\* .replace(/[^set]/g, '')
RemoveOutside(s, set) == SelectSeq(s, LAMBDA c : c \in set)

\* .replace(/^-+|-+$/g, '')
TrimHyphens(s) == StripTrailing(StripLeading(s, {"-"}), {"-"})

\* Without the last replace: hyphens stay at the ends.
generateFilenameUntrimmed(t) ==
  ReplaceRuns(RemoveOutside(ReplaceRuns(trim(toLowerCase(t)), Separators, "-"),
                            SafeChars), {"-"}, "-")

\* Without the replace of /-+/g: runs of hyphens stay.
generateFilenameUncollapsed(t) ==
  TrimHyphens(RemoveOutside(ReplaceRuns(trim(toLowerCase(t)), Separators, "-"),
                            SafeChars))

\* generateFilename(title)
generateFilename(t) ==
  TrimHyphens(
    ReplaceRuns(
      RemoveOutside(
        ReplaceRuns(trim(toLowerCase(t)), Separators, "-"),
        SafeChars),
      {"-"}, "-"))

\* The characters the titles are drawn from: an upper-case and a lower-case
\* letter, a digit, the two kinds of separator, a tab, a hyphen, a dot and a
\* character outside the safe set.
TitleChars == {"A", "b", "1", " ", "\t", "_", "-", ".", "&"}

RECURSIVE StringsUpTo(_)
StringsUpTo(n) ==
  IF n = 0 THEN {<< >>}
  ELSE LET shorter == StringsUpTo(n - 1) IN
         shorter \cup {Append(s, c) : s \in shorter, c \in TitleChars}

\* "Endometriose & Fatigue!"
ExampleTitle == <<"E", "n", "d", "o", "m", "e", "t", "r", "i", "o", "s", "e", " ",
                  "&", " ", "F", "a", "t", "i", "g", "u", "e", "!">>
\* "endometriose-fatigue"
ExampleSlug == <<"e", "n", "d", "o", "m", "e", "t", "r", "i", "o", "s", "e", "-",
                 "f", "a", "t", "i", "g", "u", "e">>

Titles == StringsUpTo(MaxTitleLen) \cup {ExampleTitle}

\* The value of filename while generateFilename has not returned.
NotReturned == <<"(not returned)">>

\* const filename = generateFilename(blogPostTitle)
generateFilenameCall ==
  /\ filename = NotReturned
  /\ filename' = generateFilename(title)
  /\ UNCHANGED <<day, store, clientVars, pc, localVars, ret, obs, callsLeft, title, approved>>

\* The next title is handed to generateFilename.
NextTitle(t) ==
  /\ filename # NotReturned
  /\ callsLeft > 0
  /\ callsLeft' = callsLeft - 1
  /\ title' = t
  /\ filename' = NotReturned
  /\ UNCHANGED <<day, store, clientVars, pc, localVars, ret, obs, approved>>

\* generateFilename on its own, on every title of Titles.
InitSlug ==
  /\ InitProgram(1)
  /\ store = [k \in Days |-> NoKey]
  /\ title \in Titles
  /\ filename = NotReturned

NextSlug == generateFilenameCall \/ \E t \in {filename} : NextTitle(t)
SpecSlug == InitSlug /\ [][NextSlug]_vars

\* ================================================================ properties
QuotaError == "Daily limit exceeded"
ValidationErrors == {"Invalid prompts array", "Maximum 10 images per request"}
ValidLen(n) == n >= 1 /\ n <= MAX_PROMPTS_PER_REQUEST
InPipeline(p) == pc[p] \in {"gi_concept", "gi_image", "gi_upload"}

\* C1: a valid batch of n prompts that finds at least n units of capacity
\* reserves exactly n units exactly once: an admitted call has executed one
\* INCRBY, which moved the counter of its window by n, through every outcome
\* of its units; no call executes a second INCRBY; and a call is rejected for
\* quota only when the count it read left less than n.
C1_ReservesBatchOnce ==
  \A p \in Callers :
    /\ obs[p].incrCalls <= 1
    /\ obs[p].reserved =>
         /\ obs[p].incrCalls = 1
         /\ obs[p].charged = Len(prompts[p])
         /\ ValidLen(Len(prompts[p]))
    /\ InPipeline(p) => obs[p].reserved
    /\ (pc[p] = "gi_done" /\ ret[p].kind = "images") => obs[p].reserved
    /\ (pc[p] = "gi_done" /\ ret[p].err = QuotaError) =>
         currentCount[p] + Len(prompts[p]) > MAX_IMAGES_PER_DAY

\* A batch of MaxLen prompts has returned with some units failed and some
\* succeeded, and its whole length was charged.
C1_Witness ==
  \E p \in Callers :
    /\ pc[p] = "gi_done" /\ ret[p].kind = "images"
    /\ Len(prompts[p]) = MaxLen
    /\ Len(ret[p].images) > 0 /\ Len(ret[p].images) < MaxLen
    /\ obs[p].charged = MaxLen

\* C2: the amounts added to one window's counter by reserve calls never sum
\* to more than the daily limit, under any interleaving.
C2_ApprovedWithinLimit ==
  \A k \in Days : approved[k] <= MAX_IMAGES_PER_DAY

\* C3: a reserve whose GET finds count + amount > dailyLimit throws the quota
\* error carrying dailyLimit - count for the count stored at that moment and
\* leaves the store as it is; a reserve that finds room goes on to INCRBY; a
\* call that threw the quota error has executed no INCRBY.
C3_QuotaExceededStep(p) ==
  (/\ pc[p] = "gi_get"
   /\ pc'[p] \in {"gi_incrBy", "gi_done"}
   /\ ret'[p].err # "Redis error") =>
    LET stored == CountIn(store, key[p])
        amount == Len(prompts[p])
    IN IF stored + amount > MAX_IMAGES_PER_DAY
       THEN /\ pc'[p] = "gi_done"
            /\ ret'[p] = Threw(QuotaError, MAX_IMAGES_PER_DAY - stored)
            /\ store' = store
            /\ obs'[p].incrCalls = 0 /\ obs'[p].charged = 0 /\ ~obs'[p].reserved
       ELSE pc'[p] = "gi_incrBy" /\ ret'[p] = NoRet

C3_QuotaExceededAfter(p) ==
  (pc[p] = "gi_done" /\ ret[p].err = QuotaError) =>
    (pc'[p] \in {"gi_done", "idle"} /\ (pc'[p] = "gi_done" => obs'[p] = obs[p]))

C3_QuotaExceededLeavesCount ==
  [][\A p \in Callers : C3_QuotaExceededStep(p) /\ C3_QuotaExceededAfter(p)]_vars

\* A batch was rejected although part of it would have fit, and the counter
\* still holds what the call read.
C3_Witness ==
  \E p \in Callers :
    /\ pc[p] = "gi_done" /\ ret[p].err = QuotaError
    /\ ret[p].num > 0
    /\ CountIn(store, key[p]) = MAX_IMAGES_PER_DAY - ret[p].num

\* C4: getRemainingImages always returns an integer in 0..dailyLimit, never
\* an error; when a store command of it threw, or the client's connect has
\* failed, the value is dailyLimit.
C4_GetRemainingNeverFails ==
  \A p \in Callers :
    pc[p] = "gr_done" =>
      /\ ret[p].kind = "number"
      /\ ret[p].num \in 0..MAX_IMAGES_PER_DAY
      /\ obs[p].caught => ret[p].num = MAX_IMAGES_PER_DAY
      /\ redisClient = "failed" => ret[p].num = MAX_IMAGES_PER_DAY

\* The store failed under getRemainingImages while today's quota was used up.
C4_Witness ==
  \E p \in Callers :
    /\ pc[p] = "gr_done" /\ obs[p].caught
    /\ ret[p].num = MAX_IMAGES_PER_DAY
    /\ CountIn(store, DateKey(day)) >= MAX_IMAGES_PER_DAY

\* C5: generateImages with an empty batch or more than 10 prompts throws a
\* validation error in its first step, leaving the store, the client and the
\* counters as they are: no store command, no quota, no unit; and a batch of
\* 1..10 prompts never gets a validation error.
C5_InvalidStep(p) ==
  (/\ pc[p] = "idle"
   /\ pc'[p] \in {"gi_connect", "gi_get", "gi_done"}
   /\ ~ValidLen(Len(prompts'[p]))) =>
    /\ pc'[p] = "gi_done"
    /\ ret'[p].kind = "error" /\ ret'[p].err \in ValidationErrors
    /\ UNCHANGED <<store, clientVars, approved, obs, i, results>>

C5_InvalidState(p) ==
  /\ (pc[p] = "gi_done" /\ ~ValidLen(Len(prompts[p]))) =>
       /\ ret[p].err \in ValidationErrors
       /\ ~obs[p].contacted /\ obs[p].reserveCalls = 0 /\ obs[p].charged = 0
       /\ ~obs[p].workStarted /\ results[p] = << >>
  /\ (pc[p] = "gi_done" /\ ret[p].err \in ValidationErrors) => ~ValidLen(Len(prompts[p]))

C5_InvalidBatchNoSideEffect ==
  [][\A p \in Callers : C5_InvalidStep(p) /\ C5_InvalidState(p)']_vars

\* An oversized batch was rejected before any client was created.
C5_Witness ==
  \E p \in Callers :
    /\ pc[p] = "gi_done"
    /\ Len(prompts[p]) > MAX_PROMPTS_PER_REQUEST
    /\ ret[p].err = "Maximum 10 images per request"
    /\ redisClient = "null" /\ clientsCreated = 0

\* C6: the images an admitted batch returns are exactly the artifacts of the
\* units that succeeded, in input order, each with the title of its prompt,
\* and none for a failed unit; the results array is that at every point of
\* the loop.
ArtifactsOf(b, ok) == [n \in 1..Len(ok) |-> [url |-> ok[n], title |-> b[ok[n]]]]
Increasing(ok) == \A m, n \in 1..Len(ok) : m < n => ok[m] < ok[n]

C6_ResultsAreSuccessesInOrder ==
  \A p \in Callers :
    /\ (pc[p] = "gi_done" /\ ret[p].kind = "images") =>
         /\ ret[p].images = ArtifactsOf(prompts[p], obs[p].ok)
         /\ Len(ret[p].images) <= Len(prompts[p])
    /\ InPipeline(p) => results[p] = ArtifactsOf(prompts[p], obs[p].ok)
    /\ Increasing(obs[p].ok)
    /\ \A n \in 1..Len(obs[p].ok) : obs[p].ok[n] \in 1..Len(prompts[p])

\* A batch of 3 whose 2nd unit failed returned the artifacts of prompts 1, 3.
C6_Witness ==
  \E p \in Callers :
    /\ pc[p] = "gi_done" /\ ret[p].kind = "images"
    /\ Len(prompts[p]) = 3
    /\ obs[p].ok = <<1, 3>>
    /\ Len(ret[p].images) = 2

\* C7: a getRemainingImages whose GET is answered returns
\* max(0, dailyLimit - count) for the count stored under the date key it
\* computed (0 for an absent key), a value in 0..dailyLimit.
C7_RemainingStep(p) ==
  (pc[p] = "gr_get" /\ pc'[p] = "gr_done" /\ ~obs'[p].caught) =>
    /\ ret'[p] = ReturnedNumber(Max(0, MAX_IMAGES_PER_DAY - CountIn(store, key[p])))
    /\ ret'[p].num \in 0..MAX_IMAGES_PER_DAY
    /\ store' = store

C7_RemainingIsClampedDifference ==
  [][\A p \in Callers : C7_RemainingStep(p)]_vars

\* getRemainingImages returned 0 for a counter that a race took past the limit.
C7_Witness ==
  \E p \in Callers :
    /\ pc[p] = "gr_done" /\ ~obs[p].caught
    /\ ret[p].num = 0
    /\ CountIn(store, key[p]) > MAX_IMAGES_PER_DAY

\* C8: an INCRBY or EXPIRE of a reserve changes no key but the one the call
\* computed; no key of a later day exists; and at midnight the new day's key
\* reads as full capacity: getRemainingImages would return dailyLimit and a
\* batch of up to dailyLimit is not over the limit, whatever the old count.
C8_ReserveFrame(p) ==
  (pc[p] \in {"gi_incrBy", "gi_expire"} /\ pc'[p] # pc[p]) =>
    \A k \in Days : k # key[p] => store'[k] = store[k]

C8_Rollover ==
  day' # day =>
    LET cur == CurrentCountOf(RedisGet(store', DateKey(day')))
    IN /\ RemainingImages(cur) = MAX_IMAGES_PER_DAY
       /\ ~OverLimit(cur, MAX_IMAGES_PER_DAY)

C8_NoFutureKey == \A k \in Days : k > day => ~store[k].exists

C8_WindowsIndependent ==
  [][(\A p \in Callers : C8_ReserveFrame(p)) /\ C8_Rollover /\ C8_NoFutureKey']_vars

\* After a day that used up its quota, getRemainingImages returned the full
\* limit for the new day.
C8_Witness ==
  \E p \in Callers :
    /\ day = 2
    /\ CountIn(store, 1) = MAX_IMAGES_PER_DAY
    /\ pc[p] = "gr_done" /\ ~obs[p].caught
    /\ key[p] = 2
    /\ ret[p].num = MAX_IMAGES_PER_DAY

\* C9: checkRateLimit is called at most once per generateImages, with the
\* batch length; a unit's external call is issued only after that call has
\* returned; a call that threw the quota error issued none and has no result.
C9_ReserveOnceBeforeWork ==
  \A p \in Callers :
    /\ obs[p].reserveCalls <= 1
    /\ obs[p].reserveCalls = 1 => obs[p].reserveArg = Len(prompts[p])
    /\ (obs[p].workStarted \/ InPipeline(p) \/ i[p] > 0 \/ obs[p].ok # << >>) =>
         /\ obs[p].reserved
         /\ obs[p].reserveCalls = 1
    /\ (pc[p] = "gi_done" /\ ret[p].err = QuotaError) =>
         /\ ret[p].kind = "error"
         /\ ~obs[p].workStarted /\ ~obs[p].reserved
         /\ i[p] = 0 /\ results[p] = << >> /\ obs[p].ok = << >>

\* One batch is in its first unit after its reserve returned, another was
\* turned away with the quota error before any unit.
C9_Witness ==
  \E p, q \in Callers :
    /\ pc[p] = "gi_concept" /\ i[p] = 1 /\ obs[p].reserved
    /\ Len(prompts[p]) = MaxLen
    /\ pc[q] = "gi_done" /\ ret[q].err = QuotaError /\ ~obs[q].workStarted

\* C10: an admitted batch returns an array, never an error, whatever its
\* units did; when every unit failed the array is empty.
C10_UnitFailuresNotSurfaced ==
  \A p \in Callers :
    (pc[p] = "gi_done" /\ obs[p].reserved) =>
      /\ ret[p].kind = "images"
      /\ ret[p].err = ""
      /\ obs[p].ok = << >> => ret[p].images = << >>

\* A batch of MaxLen prompts whose units all failed returned the empty array.
C10_Witness ==
  \E p \in Callers :
    /\ pc[p] = "gi_done" /\ obs[p].reserved
    /\ Len(prompts[p]) = MaxLen
    /\ obs[p].ok = << >>
    /\ ret[p] = ReturnedImages(<< >>)

\* C11: a unit that fails after the reserve still consumes quota. No step
\* of the unit loop (a failing unit's catch block included) changes the store,
\* so the counter is never handed back; and a batch that was admitted and has
\* returned moved the counter by its whole length n, not by the number of
\* units that succeeded.
C11_LoopStep(p) ==
  (InPipeline(p) /\ (pc'[p] # pc[p] \/ i'[p] # i[p])) =>
    /\ store' = store
    /\ obs'[p].charged = obs[p].charged

C11_Returned(p) ==
  (pc[p] = "gi_done" /\ ret[p].kind = "images") =>
    /\ obs[p].charged = Len(prompts[p])
    /\ Len(ret[p].images) <= Len(prompts[p])
    /\ CountIn(store, DateKey(day)) >= obs[p].charged

C11_FailedUnitsStillCharged ==
  [][\A p \in Callers : C11_LoopStep(p) /\ C11_Returned(p)']_vars

\* A batch of MaxLen prompts returned with one artifact only (the other units
\* failed) and the counter holds all MaxLen units of it.
C11_Witness ==
  \E p \in Callers :
    /\ pc[p] = "gi_done" /\ ret[p].kind = "images"
    /\ Len(prompts[p]) = MaxLen
    /\ Len(ret[p].images) = 1
    /\ obs[p].charged = MaxLen
    /\ CountIn(store, DateKey(day)) >= MaxLen

\* C12: no lost updates. Whatever the interleaving of the concurrent
\* checkRateLimit calls of one window, the counter of a key is what it was at
\* the start plus the amounts of all the INCRBYs approved for that key since,
\* each added exactly once.
C12_NoLostUpdate ==
  \A k \in Days : CountIn(store, k) = approved[k]

\* Two calls that read the same count raced: both have incremented, neither
\* has returned from checkRateLimit, and the counter holds both amounts.
C12_Witness ==
  \E p, q \in Callers :
    /\ p # q
    /\ pc[p] = "gi_expire" /\ pc[q] = "gi_expire"
    /\ key[p] = key[q]
    /\ currentCount[p] = currentCount[q]
    /\ CountIn(store, key[p]) = currentCount[p] + count[p] + count[q]

\* C13: the slug generateFilename returns is lower-cased and holds only
\* characters of [a-z0-9-.], has no two hyphens in a row and no hyphen at
\* either end; a run of whitespace or underscores between two letters or
\* digits becomes one hyphen; "Endometriose & Fatigue!" gives
\* "endometriose-fatigue"; and the slug of a slug is that slug.
C13_AlnumEnds(s) ==
  /\ Len(s) >= 3
  /\ LowerOf(s[1]) \in CharsOf(LowerCase) \cup CharsOf(Digits)
  /\ LowerOf(s[Len(s)]) \in CharsOf(LowerCase) \cup CharsOf(Digits)
  /\ \A j \in 2..(Len(s) - 1) : s[j] \in Separators

C13_SlugIsSafe ==
  filename # NotReturned =>
    /\ \A j \in 1..Len(filename) : filename[j] \in SafeChars
    /\ \A j \in 1..Len(filename) : filename[j] \notin CharsOf(UpperCase)
    /\ \A j \in 1..(Len(filename) - 1) : ~(filename[j] = "-" /\ filename[j + 1] = "-")
    /\ filename # << >> => (filename[1] # "-" /\ filename[Len(filename)] # "-")
    /\ C13_AlnumEnds(title) =>
         filename = <<LowerOf(title[1]), "-", LowerOf(title[Len(title)])>>
    /\ title = ExampleTitle => filename = ExampleSlug
    /\ callsLeft = 0 => filename = title

\* "Endometriose & Fatigue!" was slugged to "endometriose-fatigue", and that
\* slug was slugged a second time and came back as it was.
C13_Witness ==
  /\ callsLeft = 0
  /\ title = ExampleSlug
  /\ filename = ExampleSlug

\* C14: the units of a batch are processed one at a time in input order.
\* An invocation has one call outstanding at a time; the loop starts at the
\* first prompt with concept synthesis; within a unit the calls follow each
\* other as concept synthesis, artifact synthesis, persistence; a unit ends
\* before the next one starts, the next one is the next prompt, and the batch
\* returns only after its last prompt.
C14_LoopStarts(p) ==
  (~InPipeline(p) /\ InPipeline(p)') => (pc'[p] = "gi_concept" /\ i'[p] = 1)

C14_LoopAdvances(p) ==
  (InPipeline(p) /\ (pc'[p] # pc[p] \/ i'[p] # i[p])) =>
    \/ pc[p] = "gi_concept" /\ pc'[p] = "gi_image" /\ i'[p] = i[p]
    \/ pc[p] = "gi_image" /\ pc'[p] = "gi_upload" /\ i'[p] = i[p]
    \/ pc'[p] = "gi_concept" /\ i'[p] = i[p] + 1 /\ i[p] < Len(prompts[p])
    \/ pc'[p] = "gi_done" /\ i'[p] = i[p] /\ i[p] = Len(prompts[p])

C14_UnitsInOrder ==
  [][\A p \in Callers :
       /\ C14_LoopStarts(p)
       /\ C14_LoopAdvances(p)
       /\ InPipeline(p)' => i'[p] \in 1..Len(prompts'[p])]_vars

\* The second unit of a batch is at its persistence step after the first
\* unit went through all its steps.
C14_Witness ==
  \E p \in Callers :
    /\ pc[p] = "gi_upload" /\ i[p] = 2
    /\ Len(prompts[p]) = MaxLen
    /\ obs[p].ok = <<1>>

\* C15: a failure in any step of a unit (concept synthesis, artifact
\* synthesis with the absent media reference included, fetch or upload) aborts
\* that unit only. A step that ends a unit without a success leaves the
\* results as they were, does not go on to a later step of the same unit, does
\* not start the same unit again, and is followed by the next prompt whenever
\* there is one; only after the last prompt does the batch return, with the
\* results collected so far.
C15_UnitEndsWithoutSuccess(p) ==
  /\ InPipeline(p)
  /\ pc'[p] # pc[p] \/ i'[p] # i[p]
  /\ obs'[p].ok = obs[p].ok
  /\ ~(pc[p] = "gi_concept" /\ pc'[p] = "gi_image" /\ i'[p] = i[p])
  /\ ~(pc[p] = "gi_image" /\ pc'[p] = "gi_upload" /\ i'[p] = i[p])

C15_FailureStep(p) ==
  C15_UnitEndsWithoutSuccess(p) =>
    /\ results'[p] = results[p]
    /\ store' = store
    /\ IF i[p] < Len(prompts[p])
       THEN pc'[p] = "gi_concept" /\ i'[p] = i[p] + 1 /\ ret'[p] = ret[p]
       ELSE pc'[p] = "gi_done" /\ ret'[p] = ReturnedImages(results[p])

\* A failure is possible at each of the three steps, and a success only at
\* the last one.
C15_EveryStepCanFail(p) ==
  /\ InPipeline(p) => ENABLED UnitFails(p)
  /\ Len(results'[p]) > Len(results[p]) => pc[p] = "gi_upload"

C15_FailureAbortsOnlyItsUnit ==
  [][\A p \in Callers : C15_FailureStep(p) /\ C15_EveryStepCanFail(p)]_vars

\* The first unit of a batch failed, the second succeeded, and the third is
\* at its artifact synthesis.
C15_Witness ==
  \E p \in Callers :
    /\ pc[p] = "gi_image" /\ i[p] = 3
    /\ Len(prompts[p]) = MaxLen
    /\ obs[p].ok = <<2>>
    /\ Len(results[p]) = 1

C16_Lowered(k) == CountIn(store', k) < CountIn(store, k)

C17_IncrementSetsExpiryAtomically ==
  [][\A p \in Callers :
       (pc[p] = "gi_incrBy" /\ pc'[p] = "gi_expire") =>
         /\ CountIn(store', key[p]) = CountIn(store, key[p]) + count[p]
         /\ store'[key[p]].expires
         /\ store'[key[p]].ttl = TTLDays]_vars

\* C19: checkRateLimit fails closed when the store is unavailable. When the
\* connect or the GET of a generateImages call fails, the call ends with the
\* store's error: the step leaves the store as it was, the call has charged
\* nothing, no unit of it was started and nothing is in its results.
C19_StoreFailsBeforeIncrement(p) ==
  /\ pc[p] \in {"gi_connect", "gi_get"}
  /\ pc'[p] \notin {"gi_connect", "gi_get", "gi_incrBy"}
  /\ ~(pc'[p] = "gi_done" /\ ret'[p].err = QuotaError)

C20_OneClient ==
  /\ clientsCreated <= 1
  /\ connectCalls <= 1
  /\ connectCalls = clientsCreated
  /\ (redisClient = "null") <=> (clientsCreated = 0)
  /\ (redisClient = "null") => \A p \in Callers : ~obs[p].contacted

C20_ClientCreatedOnceAndKept ==
  [][/\ C20_OneClient /\ C20_OneClient'
     /\ redisClient # "null" =>
          /\ redisClient' # "null"
          /\ clientsCreated' = clientsCreated
          /\ connectCalls' = connectCalls]_vars

\* Two concurrent calls use the one client: the first created and connected
\* it, the second found the module variable set, and both have a command
\* outstanding on it.
C20_Witness ==
  /\ pc[1] = "gi_get" /\ pc[2] = "gr_get"
  /\ redisClient = "ready"
  /\ clientsCreated = 1 /\ connectCalls = 1

\* C21: every client getRedisClient returns has completed its connect: a
\* caller that holds the returned client (it has a store command outstanding
\* or answered) holds a connected client, also when it called while another
\* caller's connect was pending or after the first connect failed.
C21_HoldsClient(p) == pc[p] \in {"gi_get", "gi_incrBy", "gi_expire", "gr_get"}

C21_ReturnedClientIsConnected ==
  \A p \in Callers : C21_HoldsClient(p) => redisClient = "ready"

\* C22: a generateImages call that ends with a batch-level error (invalid
\* batch, quota exceeded, or a store failure at any point of checkRateLimit,
\* the EXPIRE after the INCRBY included) has not moved the counter: such a
\* call has charged nothing, and quota is charged only to calls whose units
\* were started.
C22_FailedBatchChargesNothing ==
  \A p \in Callers :
    /\ (pc[p] = "gi_done" /\ ret[p].kind = "error") => obs[p].charged = 0
    /\ obs[p].charged > 0 => (pc[p] = "gi_expire" \/ obs[p].workStarted)

\* C23: the remaining value the "Daily limit exceeded" error carries is
\* never negative and is the value getRemainingImages returns for the same
\* count, in every reachable state, those reached by concurrent checkRateLimit
\* calls included.
C23_QuotaErrorRemainingAsGetRemaining ==
  \A p \in Callers :
    (pc[p] = "gi_done" /\ ret[p].err = QuotaError) =>
      /\ ret[p].num >= 0
      /\ ret[p].num = RemainingImages(currentCount[p])

\* C24: when the calls come one after another, the count of every key stays
\* within 0..MAX_IMAGES_PER_DAY through every sequence of generateImages and
\* getRemainingImages calls and through the days; and the check of
\* checkRateLimit turns a batch away with the quota error exactly when the
\* stored count plus the batch size is over the limit: it is then that the
\* answered GET ends the call, and otherwise the call goes on to its INCRBY.
C24_CheckStep ==
  (pc[1] = "gi_get" /\ pc'[1] # "gi_get" /\ ~(pc'[1] = "gi_done" /\ ret'[1].err = "Redis error")) =>
    IF CountIn(store, key[1]) + Len(prompts[1]) > MAX_IMAGES_PER_DAY
    THEN pc'[1] = "gi_done" /\ ret'[1].err = QuotaError /\ store' = store
    ELSE pc'[1] = "gi_incrBy" /\ ret'[1] = ret[1]

C24_CountInRange ==
  \A k \in Days : CountIn(store, k) >= 0 /\ CountIn(store, k) <= MAX_IMAGES_PER_DAY

C24_SequentialWithinLimit ==
  [][/\ C24_CountInRange /\ C24_CountInRange'
     /\ C24_CheckStep
     /\ (pc'[1] = "gi_done" /\ ret'[1].err = QuotaError) => pc[1] \in {"gi_get", "gi_done"}]_vars

\* A one-prompt batch was admitted on the key that had room for exactly one
\* longest batch, and the longest batch that came next was turned away with
\* the quota error, one unit short.
C24_Witness ==
  /\ pc[1] = "gi_done" /\ ret[1].err = QuotaError
  /\ Len(prompts[1]) = MaxLen
  /\ CountIn(store, DateKey(day)) = MAX_IMAGES_PER_DAY - MaxLen + 1
  /\ ret[1].num = MaxLen - 1

\* C25: in every reachable state, the states between the INCRBY and the
\* EXPIRE of a checkRateLimit call and the states after a failed store command
\* included, every key that holds a positive count has a time-to-live: no
\* counter key can stay in the store without expiry.
C25_PositiveKeyHasExpiry ==
  \A k \in Days : CountIn(store, k) > 0 => store[k].expires

====
